---- MODULE Spec2Model ----
(***************************************************************************)
(* CRCu8 (src/crc_u8.rs): the CRC-8 / CRC-x (x < 8) engine.                *)
(*                                                                         *)
(* The engine is the record `crc`; its operations are create_crc and the   *)
(* named constructors, digest, reset and get_crc.  All arithmetic is on    *)
(* u8 values (0 .. 255); shifts and subtractions wrap or panic as the      *)
(* build profile (debug_assertions, overflow-checks) decides.              *)
(***************************************************************************)
EXTENDS Naturals, Sequences, FiniteSets, TLC

VARIABLES
  crc,     \* the CRCu8 value (meaningful when pc = "ready")
  pc,      \* "new": nothing constructed; "ready": engine built; "panicked"
  args,    \* the constructor called and the parameters it stands for
  fed,     \* the bytes digested since construction or the last reset, in order
  base,    \* sum right after construction or the last reset
  was_reset, \* whether reset() has been called
  peeked,  \* whether a digest followed a get_crc() since construction or reset
  crc0,    \* <<get_crc()>> observed immediately after construction
  ret,     \* <<value>> returned by the last get_crc(), <<>> before any
  last,    \* the last operation: "none", "create", "digest", "digest_crc", "reset",
           \* "get_crc", "reflect"
  rf       \* reflect_function under test: [high_bit, n0, n, calls]

vars == <<crc, pc, args, fed, base, was_reset, peeked, crc0, ret, last, rf>>

-----------------------------------------------------------------------------
(* Bounds of the model *)

\* longest byte slice handed to one digest call
MaxChunk == 2
\* most bytes digested between two resets (the check string aside)
MaxFed == 3
\* largest `bits` argument tried by the constructor when widths are unchecked
MaxBits == 9

-----------------------------------------------------------------------------
(* u8 arithmetic *)

\* number of values of a u8 (field types, lines 7-15)
U8 == 256

RECURSIVE BitAndRec(_, _)
\* a & b
BitAndRec(a, b) ==
  IF a = 0 \/ b = 0 THEN 0
  ELSE (IF a % 2 = 1 /\ b % 2 = 1 THEN 1 ELSE 0) + 2 * BitAndRec(a \div 2, b \div 2)

\* a & b for every pair of u8 values, computed once
BitAndTab == [a \in 0 .. 255 |-> [b \in 0 .. 255 |-> BitAndRec(a, b)]]

\* a & b
BitAnd(a, b) == BitAndTab[a][b]

RECURSIVE BitOrRec(_, _)
\* a | b
BitOrRec(a, b) ==
  IF a = 0 THEN b
  ELSE IF b = 0 THEN a
  ELSE (IF a % 2 = 1 \/ b % 2 = 1 THEN 1 ELSE 0) + 2 * BitOrRec(a \div 2, b \div 2)

\* a | b for every pair of u8 values, computed once
BitOrTab == [a \in 0 .. 255 |-> [b \in 0 .. 255 |-> BitOrRec(a, b)]]

\* a | b
BitOr(a, b) == BitOrTab[a][b]

RECURSIVE BitXorRec(_, _)
\* a ^ b
BitXorRec(a, b) ==
  IF a = 0 THEN b
  ELSE IF b = 0 THEN a
  ELSE ((a + b) % 2) + 2 * BitXorRec(a \div 2, b \div 2)

\* a ^ b for every pair of u8 values, computed once
BitXorTab == [a \in 0 .. 255 |-> [b \in 0 .. 255 |-> BitXorRec(a, b)]]

\* a ^ b
BitXor(a, b) == BitXorTab[a][b]

\* x << 1 on a u8: the bit shifted out of the top is lost
Shl1(x) == (2 * x) % U8

\* x >> 1
Shr1(x) == x \div 2

RECURSIVE Pow2(_)
Pow2(k) == IF k = 0 THEN 1 ELSE 2 * Pow2(k - 1)

\* a [u8; 256] array from its literal
array256(lit) == [i \in 0 .. 255 |-> lit[i + 1]]

\* [0u8; 256]
ZeroTable == [i \in 0 .. 255 |-> 0]

-----------------------------------------------------------------------------
(* The precomputed tables *)

\* const NO_REF_8_07: [u8; 256]  (line 234)
NO_REF_8_07 ==
  array256(<< 0, 7, 14, 9, 28, 27, 18, 21, 56, 63, 54, 49, 36, 35, 42, 45,
     112, 119, 126, 121, 108, 107, 98, 101, 72, 79, 70, 65, 84, 83, 90, 93,
     224, 231, 238, 233, 252, 251, 242, 245, 216, 223, 214, 209, 196, 195, 202, 205,
     144, 151, 158, 153, 140, 139, 130, 133, 168, 175, 166, 161, 180, 179, 186, 189,
     199, 192, 201, 206, 219, 220, 213, 210, 255, 248, 241, 246, 227, 228, 237, 234,
     183, 176, 185, 190, 171, 172, 165, 162, 143, 136, 129, 134, 147, 148, 157, 154,
     39, 32, 41, 46, 59, 60, 53, 50, 31, 24, 17, 22, 3, 4, 13, 10,
     87, 80, 89, 94, 75, 76, 69, 66, 111, 104, 97, 102, 115, 116, 125, 122,
     137, 142, 135, 128, 149, 146, 155, 156, 177, 182, 191, 184, 173, 170, 163, 164,
     249, 254, 247, 240, 229, 226, 235, 236, 193, 198, 207, 200, 221, 218, 211, 212,
     105, 110, 103, 96, 117, 114, 123, 124, 81, 86, 95, 88, 77, 74, 67, 68,
     25, 30, 23, 16, 5, 2, 11, 12, 33, 38, 47, 40, 61, 58, 51, 52,
     78, 73, 64, 71, 82, 85, 92, 91, 118, 113, 120, 127, 106, 109, 100, 99,
     62, 57, 48, 55, 34, 37, 44, 43, 6, 1, 8, 15, 26, 29, 20, 19,
     174, 169, 160, 167, 178, 181, 188, 187, 150, 145, 152, 159, 138, 141, 132, 131,
     222, 217, 208, 215, 194, 197, 204, 203, 230, 225, 232, 239, 250, 253, 244, 243 >>)

\* const NO_REF_8_1D: [u8; 256]  (line 235)
NO_REF_8_1D ==
  array256(<< 0, 29, 58, 39, 116, 105, 78, 83, 232, 245, 210, 207, 156, 129, 166, 187,
     205, 208, 247, 234, 185, 164, 131, 158, 37, 56, 31, 2, 81, 76, 107, 118,
     135, 154, 189, 160, 243, 238, 201, 212, 111, 114, 85, 72, 27, 6, 33, 60,
     74, 87, 112, 109, 62, 35, 4, 25, 162, 191, 152, 133, 214, 203, 236, 241,
     19, 14, 41, 52, 103, 122, 93, 64, 251, 230, 193, 220, 143, 146, 181, 168,
     222, 195, 228, 249, 170, 183, 144, 141, 54, 43, 12, 17, 66, 95, 120, 101,
     148, 137, 174, 179, 224, 253, 218, 199, 124, 97, 70, 91, 8, 21, 50, 47,
     89, 68, 99, 126, 45, 48, 23, 10, 177, 172, 139, 150, 197, 216, 255, 226,
     38, 59, 28, 1, 82, 79, 104, 117, 206, 211, 244, 233, 186, 167, 128, 157,
     235, 246, 209, 204, 159, 130, 165, 184, 3, 30, 57, 36, 119, 106, 77, 80,
     161, 188, 155, 134, 213, 200, 239, 242, 73, 84, 115, 110, 61, 32, 7, 26,
     108, 113, 86, 75, 24, 5, 34, 63, 132, 153, 190, 163, 240, 237, 202, 215,
     53, 40, 15, 18, 65, 92, 123, 102, 221, 192, 231, 250, 169, 180, 147, 142,
     248, 229, 194, 223, 140, 145, 182, 171, 16, 13, 42, 55, 100, 121, 94, 67,
     178, 175, 136, 149, 198, 219, 252, 225, 90, 71, 96, 125, 46, 51, 20, 9,
     127, 98, 69, 88, 11, 22, 49, 44, 151, 138, 173, 176, 227, 254, 217, 196 >>)

\* const NO_REF_8_D5: [u8; 256]  (line 236)
NO_REF_8_D5 ==
  array256(<< 0, 213, 127, 170, 254, 43, 129, 84, 41, 252, 86, 131, 215, 2, 168, 125,
     82, 135, 45, 248, 172, 121, 211, 6, 123, 174, 4, 209, 133, 80, 250, 47,
     164, 113, 219, 14, 90, 143, 37, 240, 141, 88, 242, 39, 115, 166, 12, 217,
     246, 35, 137, 92, 8, 221, 119, 162, 223, 10, 160, 117, 33, 244, 94, 139,
     157, 72, 226, 55, 99, 182, 28, 201, 180, 97, 203, 30, 74, 159, 53, 224,
     207, 26, 176, 101, 49, 228, 78, 155, 230, 51, 153, 76, 24, 205, 103, 178,
     57, 236, 70, 147, 199, 18, 184, 109, 16, 197, 111, 186, 238, 59, 145, 68,
     107, 190, 20, 193, 149, 64, 234, 63, 66, 151, 61, 232, 188, 105, 195, 22,
     239, 58, 144, 69, 17, 196, 110, 187, 198, 19, 185, 108, 56, 237, 71, 146,
     189, 104, 194, 23, 67, 150, 60, 233, 148, 65, 235, 62, 106, 191, 21, 192,
     75, 158, 52, 225, 181, 96, 202, 31, 98, 183, 29, 200, 156, 73, 227, 54,
     25, 204, 102, 179, 231, 50, 152, 77, 48, 229, 79, 154, 206, 27, 177, 100,
     114, 167, 13, 216, 140, 89, 243, 38, 91, 142, 36, 241, 165, 112, 218, 15,
     32, 245, 95, 138, 222, 11, 161, 116, 9, 220, 118, 163, 247, 34, 136, 93,
     214, 3, 169, 124, 40, 253, 87, 130, 255, 42, 128, 85, 1, 212, 126, 171,
     132, 81, 251, 46, 122, 175, 5, 208, 173, 120, 210, 7, 83, 134, 44, 249 >>)

\* const NO_REF_8_9B: [u8; 256]  (line 237)
NO_REF_8_9B ==
  array256(<< 0, 155, 173, 54, 193, 90, 108, 247, 25, 130, 180, 47, 216, 67, 117, 238,
     50, 169, 159, 4, 243, 104, 94, 197, 43, 176, 134, 29, 234, 113, 71, 220,
     100, 255, 201, 82, 165, 62, 8, 147, 125, 230, 208, 75, 188, 39, 17, 138,
     86, 205, 251, 96, 151, 12, 58, 161, 79, 212, 226, 121, 142, 21, 35, 184,
     200, 83, 101, 254, 9, 146, 164, 63, 209, 74, 124, 231, 16, 139, 189, 38,
     250, 97, 87, 204, 59, 160, 150, 13, 227, 120, 78, 213, 34, 185, 143, 20,
     172, 55, 1, 154, 109, 246, 192, 91, 181, 46, 24, 131, 116, 239, 217, 66,
     158, 5, 51, 168, 95, 196, 242, 105, 135, 28, 42, 177, 70, 221, 235, 112,
     11, 144, 166, 61, 202, 81, 103, 252, 18, 137, 191, 36, 211, 72, 126, 229,
     57, 162, 148, 15, 248, 99, 85, 206, 32, 187, 141, 22, 225, 122, 76, 215,
     111, 244, 194, 89, 174, 53, 3, 152, 118, 237, 219, 64, 183, 44, 26, 129,
     93, 198, 240, 107, 156, 7, 49, 170, 68, 223, 233, 114, 133, 30, 40, 179,
     195, 88, 110, 245, 2, 153, 175, 52, 218, 65, 119, 236, 27, 128, 182, 45,
     241, 106, 92, 199, 48, 171, 157, 6, 232, 115, 69, 222, 41, 178, 132, 31,
     167, 60, 10, 145, 102, 253, 203, 80, 190, 37, 19, 136, 127, 228, 210, 73,
     149, 14, 56, 163, 84, 207, 249, 98, 140, 23, 33, 186, 77, 214, 224, 123 >>)

\* const REF_8_8C: [u8; 256]  (line 239)
REF_8_8C ==
  array256(<< 0, 94, 188, 226, 97, 63, 221, 131, 194, 156, 126, 32, 163, 253, 31, 65,
     157, 195, 33, 127, 252, 162, 64, 30, 95, 1, 227, 189, 62, 96, 130, 220,
     35, 125, 159, 193, 66, 28, 254, 160, 225, 191, 93, 3, 128, 222, 60, 98,
     190, 224, 2, 92, 223, 129, 99, 61, 124, 34, 192, 158, 29, 67, 161, 255,
     70, 24, 250, 164, 39, 121, 155, 197, 132, 218, 56, 102, 229, 187, 89, 7,
     219, 133, 103, 57, 186, 228, 6, 88, 25, 71, 165, 251, 120, 38, 196, 154,
     101, 59, 217, 135, 4, 90, 184, 230, 167, 249, 27, 69, 198, 152, 122, 36,
     248, 166, 68, 26, 153, 199, 37, 123, 58, 100, 134, 216, 91, 5, 231, 185,
     140, 210, 48, 110, 237, 179, 81, 15, 78, 16, 242, 172, 47, 113, 147, 205,
     17, 79, 173, 243, 112, 46, 204, 146, 211, 141, 111, 49, 178, 236, 14, 80,
     175, 241, 19, 77, 206, 144, 114, 44, 109, 51, 209, 143, 12, 82, 176, 238,
     50, 108, 142, 208, 83, 13, 239, 177, 240, 174, 76, 18, 145, 207, 45, 115,
     202, 148, 118, 40, 171, 245, 23, 73, 8, 86, 180, 234, 105, 55, 213, 139,
     87, 9, 235, 181, 54, 104, 138, 212, 149, 203, 41, 119, 244, 170, 72, 22,
     233, 183, 85, 11, 136, 214, 52, 106, 43, 117, 151, 201, 74, 20, 246, 168,
     116, 42, 200, 150, 21, 75, 169, 247, 182, 232, 10, 84, 215, 137, 107, 53 >>)

\* const REF_8_9C: [u8; 256]  (line 240)
REF_8_9C ==
  array256(<< 0, 114, 228, 150, 241, 131, 21, 103, 219, 169, 63, 77, 42, 88, 206, 188,
     143, 253, 107, 25, 126, 12, 154, 232, 84, 38, 176, 194, 165, 215, 65, 51,
     39, 85, 195, 177, 214, 164, 50, 64, 252, 142, 24, 106, 13, 127, 233, 155,
     168, 218, 76, 62, 89, 43, 189, 207, 115, 1, 151, 229, 130, 240, 102, 20,
     78, 60, 170, 216, 191, 205, 91, 41, 149, 231, 113, 3, 100, 22, 128, 242,
     193, 179, 37, 87, 48, 66, 212, 166, 26, 104, 254, 140, 235, 153, 15, 125,
     105, 27, 141, 255, 152, 234, 124, 14, 178, 192, 86, 36, 67, 49, 167, 213,
     230, 148, 2, 112, 23, 101, 243, 129, 61, 79, 217, 171, 204, 190, 40, 90,
     156, 238, 120, 10, 109, 31, 137, 251, 71, 53, 163, 209, 182, 196, 82, 32,
     19, 97, 247, 133, 226, 144, 6, 116, 200, 186, 44, 94, 57, 75, 221, 175,
     187, 201, 95, 45, 74, 56, 174, 220, 96, 18, 132, 246, 145, 227, 117, 7,
     52, 70, 208, 162, 197, 183, 33, 83, 239, 157, 11, 121, 30, 108, 250, 136,
     210, 160, 54, 68, 35, 81, 199, 181, 9, 123, 237, 159, 248, 138, 28, 110,
     93, 47, 185, 203, 172, 222, 72, 58, 134, 244, 98, 16, 119, 5, 147, 225,
     245, 135, 17, 99, 4, 118, 224, 146, 46, 92, 202, 184, 223, 173, 59, 73,
     122, 8, 158, 236, 139, 249, 111, 29, 161, 211, 69, 55, 80, 34, 180, 198 >>)

\* const REF_8_B8: [u8; 256]  (line 241)
REF_8_B8 ==
  array256(<< 0, 100, 200, 172, 225, 133, 41, 77, 179, 215, 123, 31, 82, 54, 154, 254,
     23, 115, 223, 187, 246, 146, 62, 90, 164, 192, 108, 8, 69, 33, 141, 233,
     46, 74, 230, 130, 207, 171, 7, 99, 157, 249, 85, 49, 124, 24, 180, 208,
     57, 93, 241, 149, 216, 188, 16, 116, 138, 238, 66, 38, 107, 15, 163, 199,
     92, 56, 148, 240, 189, 217, 117, 17, 239, 139, 39, 67, 14, 106, 198, 162,
     75, 47, 131, 231, 170, 206, 98, 6, 248, 156, 48, 84, 25, 125, 209, 181,
     114, 22, 186, 222, 147, 247, 91, 63, 193, 165, 9, 109, 32, 68, 232, 140,
     101, 1, 173, 201, 132, 224, 76, 40, 214, 178, 30, 122, 55, 83, 255, 155,
     184, 220, 112, 20, 89, 61, 145, 245, 11, 111, 195, 167, 234, 142, 34, 70,
     175, 203, 103, 3, 78, 42, 134, 226, 28, 120, 212, 176, 253, 153, 53, 81,
     150, 242, 94, 58, 119, 19, 191, 219, 37, 65, 237, 137, 196, 160, 12, 104,
     129, 229, 73, 45, 96, 4, 168, 204, 50, 86, 250, 158, 211, 183, 27, 127,
     228, 128, 44, 72, 5, 97, 205, 169, 87, 51, 159, 251, 182, 210, 126, 26,
     243, 151, 59, 95, 18, 118, 218, 190, 64, 36, 136, 236, 161, 197, 105, 13,
     202, 174, 2, 102, 43, 79, 227, 135, 121, 29, 177, 213, 152, 252, 80, 52,
     221, 185, 21, 113, 60, 88, 244, 144, 110, 10, 166, 194, 143, 235, 71, 35 >>)

\* const REF_8_E0: [u8; 256]  (line 242)
REF_8_E0 ==
  array256(<< 0, 145, 227, 114, 7, 150, 228, 117, 14, 159, 237, 124, 9, 152, 234, 123,
     28, 141, 255, 110, 27, 138, 248, 105, 18, 131, 241, 96, 21, 132, 246, 103,
     56, 169, 219, 74, 63, 174, 220, 77, 54, 167, 213, 68, 49, 160, 210, 67,
     36, 181, 199, 86, 35, 178, 192, 81, 42, 187, 201, 88, 45, 188, 206, 95,
     112, 225, 147, 2, 119, 230, 148, 5, 126, 239, 157, 12, 121, 232, 154, 11,
     108, 253, 143, 30, 107, 250, 136, 25, 98, 243, 129, 16, 101, 244, 134, 23,
     72, 217, 171, 58, 79, 222, 172, 61, 70, 215, 165, 52, 65, 208, 162, 51,
     84, 197, 183, 38, 83, 194, 176, 33, 90, 203, 185, 40, 93, 204, 190, 47,
     224, 113, 3, 146, 231, 118, 4, 149, 238, 127, 13, 156, 233, 120, 10, 155,
     252, 109, 31, 142, 251, 106, 24, 137, 242, 99, 17, 128, 245, 100, 22, 135,
     216, 73, 59, 170, 223, 78, 60, 173, 214, 71, 53, 164, 209, 64, 50, 163,
     196, 85, 39, 182, 195, 82, 32, 177, 202, 91, 41, 184, 205, 92, 46, 191,
     144, 1, 115, 226, 151, 6, 116, 229, 158, 15, 125, 236, 153, 8, 122, 235,
     140, 29, 111, 254, 139, 26, 104, 249, 130, 19, 97, 240, 133, 20, 102, 247,
     168, 57, 75, 218, 175, 62, 76, 221, 166, 55, 69, 212, 161, 48, 66, 211,
     180, 37, 87, 198, 179, 34, 80, 193, 186, 43, 89, 200, 189, 44, 94, 207 >>)

\* const REF_8_D9: [u8; 256]  (line 243)
REF_8_D9 ==
  array256(<< 0, 208, 19, 195, 38, 246, 53, 229, 76, 156, 95, 143, 106, 186, 121, 169,
     152, 72, 139, 91, 190, 110, 173, 125, 212, 4, 199, 23, 242, 34, 225, 49,
     131, 83, 144, 64, 165, 117, 182, 102, 207, 31, 220, 12, 233, 57, 250, 42,
     27, 203, 8, 216, 61, 237, 46, 254, 87, 135, 68, 148, 113, 161, 98, 178,
     181, 101, 166, 118, 147, 67, 128, 80, 249, 41, 234, 58, 223, 15, 204, 28,
     45, 253, 62, 238, 11, 219, 24, 200, 97, 177, 114, 162, 71, 151, 84, 132,
     54, 230, 37, 245, 16, 192, 3, 211, 122, 170, 105, 185, 92, 140, 79, 159,
     174, 126, 189, 109, 136, 88, 155, 75, 226, 50, 241, 33, 196, 20, 215, 7,
     217, 9, 202, 26, 255, 47, 236, 60, 149, 69, 134, 86, 179, 99, 160, 112,
     65, 145, 82, 130, 103, 183, 116, 164, 13, 221, 30, 206, 43, 251, 56, 232,
     90, 138, 73, 153, 124, 172, 111, 191, 22, 198, 5, 213, 48, 224, 35, 243,
     194, 18, 209, 1, 228, 52, 247, 39, 142, 94, 157, 77, 168, 120, 187, 107,
     108, 188, 127, 175, 74, 154, 89, 137, 32, 240, 51, 227, 6, 214, 21, 197,
     244, 36, 231, 55, 210, 2, 193, 17, 184, 104, 171, 123, 158, 78, 141, 93,
     239, 63, 252, 44, 201, 25, 218, 10, 163, 115, 176, 96, 133, 85, 150, 70,
     119, 167, 100, 180, 81, 129, 66, 146, 59, 235, 40, 248, 29, 205, 14, 222 >>)

-----------------------------------------------------------------------------
(* Build profile: debug_assert! is compiled in only with debug_assertions, *)
(* and integer overflow panics only with overflow-checks; otherwise a      *)
(* subtraction wraps and a shift amount is taken modulo the bit width.     *)

Builds == [debug_assertions : BOOLEAN, overflow_checks : BOOLEAN]

\* the value of `crc` while no engine exists
NoEngine ==
  [by_table |-> FALSE, poly |-> 0, lookup_table |-> ZeroTable, sum |-> 0,
   bits |-> 0, high_bit |-> 0, mask |-> 0, initial |-> 0, final_xor |-> 0,
   reflect |-> FALSE]

\* the constructor panicked: no CRCu8 is returned
Panic == [panicked |-> TRUE, self |-> NoEngine]

\* the constructor returned `e`
Built(e) == [panicked |-> FALSE, self |-> e]

-----------------------------------------------------------------------------
(* reflect_function *)

RECURSIVE reflect_loop(_, _, _, _)
\* while i != 0 { if n & i != 0 { out |= j; } j <<= 1; i >>= 1; }
reflect_loop(i, j, out, n) ==
  IF i = 0 THEN out
  ELSE reflect_loop(Shr1(i), Shl1(j),
                    IF BitAnd(n, i) # 0 THEN BitOr(out, j) ELSE out, n)

\* a reflect_function whose output bit starts one place too high
reflect_from_bit1(high_bit, n) == reflect_loop(high_bit, 2, 0, n)

reflect_function(high_bit, n) == reflect_loop(high_bit, 1, 0, n)

reflect_method(self, n) == reflect_function(self.high_bit, n)

-----------------------------------------------------------------------------
(* Table synthesis *)

RECURSIVE crc_reflect_entry(_, _, _)
\* for _ in 0..8u8 { if v & 1 != 0 { v >>= 1; v ^= poly_rev; } else { v >>= 1; } }
crc_reflect_entry(poly_rev, v, k) ==
  IF k = 0 THEN v
  ELSE crc_reflect_entry(poly_rev,
                         IF BitAnd(v, 1) # 0 THEN BitXor(Shr1(v), poly_rev) ELSE Shr1(v),
                         k - 1)

crc_reflect_table(poly_rev) == [i \in 0 .. 255 |-> crc_reflect_entry(poly_rev, i, 8)]

RECURSIVE crc_entry(_, _, _)
\* for _ in 0..8 { if v & 0x80 == 0 { v <<= 1; } else { v <<= 1; v ^= poly; } }
crc_entry(poly, v, k) ==
  IF k = 0 THEN v
  ELSE crc_entry(poly,
                 IF BitAnd(v, 128) = 0 THEN Shl1(v) ELSE BitXor(Shl1(v), poly),
                 k - 1)

\* a crc_table whose inner loop runs once too few
crc_table_short_loop(poly) == [i \in 0 .. 255 |-> BitAnd(crc_entry(poly, i, 7), 255)]

crc_table(poly) == [i \in 0 .. 255 |-> BitAnd(crc_entry(poly, i, 8), 255)]

-----------------------------------------------------------------------------
(* Construction *)

create(cfg, by_table, lookup_table, poly, bits, initial, final_xor, reflect) ==
  LET \* bits - 1
      sub_overflows == bits = 0
      amount == IF sub_overflows THEN U8 - 1 ELSE bits - 1
      \* 1 << amount, on a u8
      shl_overflows == amount >= 8
  IN  IF cfg.overflow_checks /\ (sub_overflows \/ shl_overflows) THEN Panic
      ELSE
        LET high_bit == Pow2(amount % 8)
            mask == BitOr(Shl1(high_bit - 1), 1)
            sum == IF reflect THEN reflect_function(high_bit, initial) ELSE initial
            poly1 == IF ~by_table /\ reflect THEN reflect_function(high_bit, poly)
                     ELSE poly
        IN  Built([by_table |-> by_table, poly |-> poly1,
                   lookup_table |-> lookup_table, sum |-> sum, bits |-> bits,
                   high_bit |-> high_bit, mask |-> mask, initial |-> initial,
                   final_xor |-> final_xor, reflect |-> reflect])

create_crc_with_exists_lookup_table(cfg, lookup_table, bits, initial, final_xor, reflect) ==
  IF cfg.debug_assertions /\ bits % 8 # 0 THEN Panic
  ELSE create(cfg, TRUE, lookup_table, 0, bits, initial, final_xor, reflect)

create_crc(cfg, poly, bits, initial, final_xor, reflect) ==
  IF cfg.debug_assertions /\ ~(bits <= 8 /\ bits > 0) THEN Panic
  ELSE IF bits % 8 = 0
       THEN create_crc_with_exists_lookup_table(
              cfg,
              IF reflect THEN crc_reflect_table(poly) ELSE crc_table(poly),
              bits, initial, final_xor, reflect)
       ELSE create(cfg, FALSE, ZeroTable, poly, bits, initial, final_xor, reflect)

-----------------------------------------------------------------------------
(* digest, reset, get_crc *)

RECURSIVE shift_loop_top_bit(_, _, _)
\* a shift loop whose carry is bit 7 of sum, whatever the width
shift_loop_top_bit(self, n, i) ==
  IF i = 0 THEN self
  ELSE LET bit0 == BitAnd(self.sum, 128)
           sum1 == Shl1(self.sum)
           bit  == IF BitAnd(n, i) # 0 THEN BitXor(bit0, 128) ELSE bit0
           sum2 == IF bit # 0 THEN BitXor(sum1, self.poly) ELSE sum1
       IN  shift_loop_top_bit([self EXCEPT !.sum = sum2], n, Shr1(i))

RECURSIVE shift_loop(_, _, _)
\* let mut i = 0x80; while i != 0 { let mut bit = self.sum & self.high_bit;
\*   self.sum <<= 1; if n & i != 0 { bit ^= self.high_bit; }
\*   if bit != 0 { self.sum ^= self.poly; } i >>= 1; }
shift_loop(self, n, i) ==
  IF i = 0 THEN self
  ELSE LET bit0 == BitAnd(self.sum, self.high_bit)
           sum1 == Shl1(self.sum)
           bit  == IF BitAnd(n, i) # 0 THEN BitXor(bit0, self.high_bit) ELSE bit0
           sum2 == IF bit # 0 THEN BitXor(sum1, self.poly) ELSE sum1
       IN  shift_loop([self EXCEPT !.sum = sum2], n, Shr1(i))

\* a digest that mirrors the polynomial again for every byte of the reflected
\* bitwise branch
digest_byte_reflects_poly(self, n) ==
  IF self.by_table
  THEN [self EXCEPT !.sum = self.lookup_table[BitXor(self.sum, n)]]
  ELSE IF self.reflect
       THEN shift_loop([self EXCEPT !.poly = reflect_function(self.high_bit, self.poly)],
                       reflect_function(128, n), 128)
       ELSE shift_loop(self, n, 128)

\* a digest whose table index leaves the running sum out
digest_byte_index_n(self, n) ==
  IF self.by_table
  THEN [self EXCEPT !.sum = self.lookup_table[n]]
  ELSE IF self.reflect
       THEN shift_loop(self, reflect_function(128, n), 128)
       ELSE shift_loop(self, n, 128)

\* the body of the `for &n in data.as_ref()` loop of the branch taken
digest_byte(self, n) ==
  IF self.by_table
  THEN [self EXCEPT !.sum = self.lookup_table[BitXor(self.sum, n)]]
  ELSE IF self.reflect
       THEN shift_loop(self, reflect_function(128, n), 128)
       ELSE shift_loop(self, n, 128)

RECURSIVE for_each_byte(_, _)
\* for &n in data.as_ref() { ... }
for_each_byte(self, data) ==
  IF data = <<>> THEN self
  ELSE for_each_byte(digest_byte(self, Head(data)), Tail(data))

\* a digest that feeds one more zero byte after the slice
digest_appends_zero(self, data) == for_each_byte(self, data \o <<0>>)

\* a digest that starts every call from the initial value
digest_restarts(self, data) == for_each_byte([self EXCEPT !.sum = self.initial], data)

digest(self, data) == for_each_byte(self, data)

reset(self) == [self EXCEPT !.sum = self.initial]

\* a get_crc that mirrors the sum of a reflected engine on the table path too
get_crc_table_reflects(self) ==
  IF self.reflect
  THEN BitAnd(BitXor(reflect_method(self, self.sum), self.final_xor), self.mask)
  ELSE BitAnd(BitXor(self.sum, self.final_xor), self.mask)

\* a get_crc that leaves the final mask out
get_crc_unmasked(self) ==
  IF self.by_table
  THEN BitXor(self.sum, self.final_xor)
  ELSE IF self.reflect
       THEN BitXor(reflect_method(self, self.sum), self.final_xor)
       ELSE BitXor(self.sum, self.final_xor)

get_crc(self) ==
  IF self.by_table
  THEN BitAnd(BitXor(self.sum, self.final_xor), self.mask)
  ELSE IF self.reflect
       THEN BitAnd(BitXor(reflect_method(self, self.sum), self.final_xor), self.mask)
       ELSE BitAnd(BitXor(self.sum, self.final_xor), self.mask)

-----------------------------------------------------------------------------
(* The named constructors (lines 246-366).  For a width-8 constructor      *)
(* `poly` is the polynomial of the create_crc call kept in the comment     *)
(* above its table.                                                        *)

P(poly, bits, initial, final_xor, reflect) ==
  [poly |-> poly, bits |-> bits, initial |-> initial, final_xor |-> final_xor,
   reflect |-> reflect]

Standard ==
  [crc3gsm        |-> P(3, 3, 0, 7, FALSE),
   crc4itu        |-> P(12, 4, 0, 0, TRUE),
   crc4interlaken |-> P(3, 4, 15, 15, FALSE),
   crc5epc        |-> P(9, 5, 0, 0, FALSE),
   crc5itu        |-> P(21, 5, 0, 0, TRUE),
   crc5usb        |-> P(20, 5, 31, 31, TRUE),
   crc6cdma2000_a |-> P(39, 6, 63, 0, FALSE),
   crc6cdma2000_b |-> P(7, 6, 63, 0, FALSE),
   crc6darc       |-> P(38, 6, 0, 0, TRUE),
   crc6gsm        |-> P(47, 6, 0, 63, FALSE),
   crc6itu        |-> P(48, 6, 0, 0, TRUE),
   crc7           |-> P(9, 7, 0, 0, FALSE),
   crc7umts       |-> P(69, 7, 0, 0, FALSE),
   crc8           |-> P(7, 8, 0, 0, FALSE),
   crc8cdma2000   |-> P(155, 8, 255, 0, FALSE),
   crc8darc       |-> P(156, 8, 0, 0, TRUE),
   crc8dvb_s2     |-> P(213, 8, 0, 0, FALSE),
   crc8ebu        |-> P(184, 8, 255, 0, TRUE),
   crc8icode      |-> P(29, 8, 253, 0, FALSE),
   crc8itu        |-> P(7, 8, 0, 85, FALSE),
   crc8maxim      |-> P(140, 8, 0, 0, TRUE),
   crc8rohc       |-> P(224, 8, 255, 0, TRUE),
   crc8wcdma      |-> P(217, 8, 0, 0, TRUE)]

Names == DOMAIN Standard

\* `let lookup_table = ...;` of each width-8 constructor
static_table(name) ==
  CASE name = "crc8"         -> NO_REF_8_07
    [] name = "crc8cdma2000" -> NO_REF_8_9B
    [] name = "crc8darc"     -> REF_8_9C
    [] name = "crc8dvb_s2"   -> NO_REF_8_D5
    [] name = "crc8ebu"      -> REF_8_B8
    [] name = "crc8icode"    -> NO_REF_8_1D
    [] name = "crc8itu"      -> NO_REF_8_07
    [] name = "crc8maxim"    -> REF_8_8C
    [] name = "crc8rohc"     -> REF_8_E0
    [] name = "crc8wcdma"    -> REF_8_D9

\* CRCu8::<name>()
named(cfg, name) ==
  LET p == Standard[name]
  IN  IF p.bits = 8
      THEN create_crc_with_exists_lookup_table(cfg, static_table(name), 8,
                                               p.initial, p.final_xor, p.reflect)
      ELSE create_crc(cfg, p.poly, p.bits, p.initial, p.final_xor, p.reflect)

\* the create_crc call recorded in the comment of a width-8 constructor
recorded_call(cfg, name) ==
  LET p == Standard[name]
  IN  create_crc(cfg, p.poly, p.bits, p.initial, p.final_xor, p.reflect)

-----------------------------------------------------------------------------
(* Inputs *)

\* polynomials, initial values and final xors tried by create_crc
Polys == {7, 29, 156}
Initials == {0, 1, 253}
FinalXors == {0, 85}
\* the bytes of the data slices
Bytes == {49, 128}

SeqsUpTo(S, n) == UNION {[1 .. k -> S] : k \in 0 .. n}

Chunks == SeqsUpTo(Bytes, MaxChunk)

\* "123456789"
Check == <<49, 50, 51, 52, 53, 54, 55, 56, 57>>

-----------------------------------------------------------------------------
(* The state machine *)

NoArgs == [ctor |-> "none"] @@ P(0, 0, 0, 0, FALSE)

NoRf == [high_bit |-> 0, n0 |-> 0, n |-> 0, calls |-> 0]

Init ==
  /\ crc = NoEngine
  /\ pc = "new"
  /\ args = NoArgs
  /\ fed = <<>>
  /\ base = 0
  /\ was_reset = FALSE
  /\ peeked = FALSE
  /\ crc0 = <<>>
  /\ ret = <<>>
  /\ last = "none"
  /\ rf = NoRf

\* the caller receives what the constructor returned, or the panic unwinds
Return(call, r) ==
  /\ args' = call
  /\ IF r.panicked
     THEN /\ pc' = "panicked"
          /\ crc' = NoEngine
          /\ base' = 0
          /\ crc0' = <<>>
     ELSE /\ pc' = "ready"
          /\ crc' = r.self
          /\ base' = r.self.sum
          /\ crc0' = <<get_crc(r.self)>>
  /\ last' = "create"
  /\ UNCHANGED <<fed, was_reset, peeked, ret, rf>>

Construct(Bits) ==
  /\ pc = "new"
  /\ \E cfg \in Builds, poly \in Polys, bits \in Bits, initial \in Initials,
        final_xor \in FinalXors, reflect \in BOOLEAN :
       Return([ctor |-> "create_crc"] @@ P(poly, bits, initial, final_xor, reflect),
              create_crc(cfg, poly, bits, initial, final_xor, reflect))

\* CRCu8::create_crc with a width the contract allows
CreateCrc == Construct(1 .. 8)

\* CRCu8::create_crc with any width the caller may pass
CreateCrcAnyBits == Construct(0 .. MaxBits)

CreateNamed ==
  /\ pc = "new"
  /\ \E cfg \in Builds, name \in Names :
       Return([ctor |-> name] @@ Standard[name], named(cfg, name))

Digest ==
  /\ pc = "ready"
  /\ \E data \in Chunks \cup {Check} :
       /\ \/ Len(fed) + Len(data) <= MaxFed
          \/ data = Check /\ fed = <<>>
       /\ crc' = digest(crc, data)
       /\ fed' = fed \o data
  /\ peeked' = (peeked \/ last = "get_crc")
  /\ ret' = <<>>
  /\ last' = "digest"
  /\ UNCHANGED <<pc, args, base, was_reset, crc0, rf>>

Reset ==
  /\ pc = "ready"
  /\ crc' = reset(crc)
  /\ fed' = <<>>
  /\ base' = crc'.sum
  /\ was_reset' = TRUE
  /\ peeked' = FALSE
  /\ ret' = <<>>
  /\ last' = "reset"
  /\ UNCHANGED <<pc, args, crc0, rf>>

\* a get_crc that stores the value it returns back into sum
GetCrcStoresSum ==
  /\ pc = "ready"
  /\ ret' = <<get_crc(crc)>>
  /\ crc' = [crc EXCEPT !.sum = get_crc(crc)]
  /\ last' = "get_crc"
  /\ UNCHANGED <<pc, args, fed, base, was_reset, peeked, crc0, rf>>

GetCrc ==
  /\ pc = "ready"
  /\ ret' = <<get_crc(crc)>>
  /\ last' = "get_crc"
  /\ UNCHANGED <<crc, pc, args, fed, base, was_reset, peeked, crc0, rf>>

Next == CreateCrc \/ CreateNamed \/ Digest \/ Reset \/ GetCrc

Spec == Init /\ [][Next]_vars

\* reflect_function on its own: every width w with h = 1 << (w - 1), every
\* n of w bits
InitReflect ==
  /\ crc = NoEngine
  /\ pc = "new"
  /\ args = NoArgs
  /\ fed = <<>>
  /\ base = 0
  /\ was_reset = FALSE
  /\ peeked = FALSE
  /\ crc0 = <<>>
  /\ ret = <<>>
  /\ last = "none"
  /\ \E w \in 1 .. 8 : \E n \in 0 .. Pow2(w) - 1 :
       rf = [high_bit |-> Pow2(w - 1), n0 |-> n, n |-> n, calls |-> 0]

Reflect ==
  /\ rf.high_bit # 0
  /\ rf.calls < 2
  /\ rf' = [rf EXCEPT !.n = reflect_function(rf.high_bit, rf.n), !.calls = @ + 1]
  /\ last' = "reflect"
  /\ UNCHANGED <<crc, pc, args, fed, base, was_reset, peeked, crc0, ret>>

NextReflect == Reflect

SpecReflect == InitReflect /\ [][NextReflect]_vars

\* the caller appends the checksum to the message: digest(&[get_crc()])
DigestCrc ==
  /\ pc = "ready"
  /\ Len(fed) <= MaxFed \/ fed = Check
  /\ crc' = digest(crc, <<get_crc(crc)>>)
  /\ fed' = fed \o <<get_crc(crc)>>
  /\ peeked' = TRUE
  /\ ret' = <<>>
  /\ last' = "digest_crc"
  /\ UNCHANGED <<pc, args, base, was_reset, crc0, rf>>

NextResidue == CreateCrc \/ CreateNamed \/ Digest \/ Reset \/ GetCrc \/ DigestCrc

SpecResidue == Init /\ [][NextResidue]_vars

NextAnyBits == CreateCrcAnyBits \/ Digest \/ Reset \/ GetCrc

SpecAnyBits == Init /\ [][NextAnyBits]_vars

-----------------------------------------------------------------------------
(* Properties *)

\* a build profile with every check on; with a width in 1..=8 no constructor
\* depends on the profile
Dev == [debug_assertions |-> TRUE, overflow_checks |-> TRUE]

\* the engine as it stood right after construction or the last reset
Restart == [crc EXCEPT !.sum = base]

\* exactly the low `bits` bits set
LowBits(bits) == Pow2(bits) - 1

\* C1: after any sequence of digests, reset() makes get_crc() return the value
\* get_crc() returned immediately after construction.
C1_ResetRoundTrip ==
  (pc = "ready" /\ last = "reset") => <<get_crc(crc)>> = crc0

\* C2: at width 8 the table-driven engine of create_crc and the bitwise engine
\* (by_table = false) built from the same polynomial, initial, final_xor and
\* reflect return the same get_crc() after digesting the same bytes.
C2_TableBitwiseAgree ==
  (pc = "ready" /\ args.ctor = "create_crc" /\ args.bits = 8 /\ ~was_reset)
    => get_crc(crc) =
         get_crc(digest(create(Dev, FALSE, ZeroTable, args.poly, args.bits,
                               args.initial, args.final_xor, args.reflect).self,
                        fed))

\* C3: on every data path and from every starting sum, the digest calls made
\* one after the other leave the engine as one digest call on the
\* concatenation of their inputs does (empty inputs included).
C3_IncrementalDigest ==
  pc = "ready" => crc = digest(Restart, fed)

\* C3 witness: a bitwise reflected engine whose input came in at least two
\* digest calls and moved the sum
C3_Witness ==
  /\ pc = "ready" /\ last = "digest"
  /\ ~crc.by_table /\ crc.reflect
  /\ Len(fed) = MaxChunk + 1
  /\ crc.sum # base

\* C4: a width outside 1..=8 is rejected at construction: no engine is
\* produced for it.
C4_InvalidWidthRejected ==
  (args.ctor = "create_crc" /\ args.bits \notin 1 .. 8) => pc = "panicked"

\* C5: get_crc() changes no field of the engine; its result is the one of the
\* bytes digested so far whatever get_crc() calls were made in between, and
\* two get_crc() calls in a row return the same value.
C5_GetCrcReadOnly ==
  [][last' = "get_crc" =>
       /\ crc' = crc
       /\ ret' = <<get_crc(digest(Restart, fed))>>
       /\ (last = "get_crc" => ret' = ret)]_vars

\* C5 witness: get_crc() read after a digest that itself followed a get_crc()
C5_Witness ==
  /\ pc = "ready" /\ last = "get_crc" /\ peeked
  /\ ~crc.by_table /\ crc.reflect
  /\ ret # crc0

\* C6: in every reachable state of an engine of width 1..=8 mask is exactly
\* the low `width` bits and get_crc() has no bit set above them.
C6_Masked ==
  pc = "ready" =>
    /\ crc.mask = LowBits(args.bits)
    /\ BitAnd(get_crc(crc), (U8 - 1) - LowBits(args.bits)) = 0
    /\ ret # <<>> => BitAnd(ret[1], (U8 - 1) - LowBits(args.bits)) = 0

\* C6 witness: get_crc() returned while the sum of a narrow bitwise engine
\* had bits set above its width
C6_Witness ==
  /\ pc = "ready" /\ last = "get_crc"
  /\ args.bits = 3 /\ ~crc.by_table
  /\ crc.sum > LowBits(args.bits)

\* C7: digest and reset change the sum only: every other field keeps the
\* value construction gave it.
C7_OnlySumMutates ==
  [][pc = "ready" => [crc' EXCEPT !.sum = 0] = [crc EXCEPT !.sum = 0]]_vars

\* C7 witness: a bitwise reflected engine whose sum a digest has changed
C7_Witness ==
  /\ pc = "ready" /\ last = "digest"
  /\ ~crc.by_table /\ crc.reflect /\ crc.poly # args.poly
  /\ crc.sum # base

\* C8: "123456789" digested into a fresh crc8(), crc8icode(), crc8darc()
\* gives 0xF4, 0x7E, 0x15.
C8_CheckValues ==
  (pc = "ready" /\ fed = Check /\ ~was_reset) =>
    /\ args.ctor = "crc8" => get_crc(crc) = 244
    /\ args.ctor = "crc8icode" => get_crc(crc) = 126
    /\ args.ctor = "crc8darc" => get_crc(crc) = 21

\* C8 witness: crc8darc() has digested the check string and returned 0x15
C8_Witness ==
  /\ pc = "ready" /\ args.ctor = "crc8darc" /\ crc.lookup_table = REF_8_9C
  /\ fed = Check /\ ~was_reset
  /\ last = "get_crc" /\ ret = <<21>>

\* C9: the table of every named width-8 constructor is, entry for entry, the
\* table synthesized from its polynomial, and the constructor's engine is at
\* every point the engine of the create_crc call in its comment.
C9_StaticTables ==
  (pc = "ready" /\ args.ctor \in Names /\ args.bits = 8) =>
    LET built == recorded_call(Dev, args.ctor).self
        twin  == digest(IF was_reset THEN reset(built) ELSE built, fed)
    IN  /\ \A i \in 0 .. 255 : crc.lookup_table[i] = built.lookup_table[i]
        /\ crc = twin
        /\ get_crc(crc) = get_crc(twin)

\* C9 witness: a named reflected width-8 engine after a digest
C9_Witness ==
  /\ pc = "ready" /\ args.ctor = "crc8wcdma" /\ crc.lookup_table = REF_8_D9
  /\ last = "digest" /\ Len(fed) = MaxFed

\* C10: reflect_function(h, reflect_function(h, n)) = n for every width w in
\* 1..=8 with h = 1 << (w - 1) and every n below 2^w.
C10_ReflectInvolution ==
  rf.calls = 2 => rf.n = rf.n0

\* C10 witness: a value that is not its own mirror image, reflected twice
C10_Witness ==
  /\ rf.calls = 2 /\ rf.high_bit = 16 /\ rf.n0 = 1 /\ rf.n = 1
  /\ reflect_function(rf.high_bit, rf.n) = 16

\* C11: digest fails on no byte sequence, and digesting the empty sequence
\* leaves sum unchanged; a non-reflected engine that has digested nothing but
\* empty input returns (initial XOR final_xor) AND mask, 0x07 for crc3gsm().
C11_EmptyDigest ==
  (pc = "ready" /\ fed = <<>>) =>
    /\ crc.sum = base
    /\ ~crc.reflect =>
         get_crc(crc) = BitAnd(BitXor(args.initial, args.final_xor), LowBits(args.bits))
    /\ (args.ctor = "crc3gsm" /\ ~was_reset) =>
         /\ crc.bits = 3 /\ crc.initial = 0 /\ crc.final_xor = 7 /\ ~crc.reflect
         /\ get_crc(crc) = 7

\* C11 witness: crc3gsm() right after a digest of the empty slice
C11_Witness ==
  /\ pc = "ready" /\ args.ctor = "crc3gsm" /\ ~was_reset
  /\ last = "digest" /\ fed = <<>>
  /\ get_crc(crc) = 7

RECURSIVE lsb_bits(_, _, _, _, _)
\* the LSB-first reference register over the low k bits of the byte n: take
\* the lowest bit, b = (r XOR bit) AND 1, shift r right by one, XOR in poly
\* when b = 1; the register holds w bits (mask)
lsb_bits(r, poly, mask, n, k) ==
  IF k = 0 THEN r
  ELSE LET b  == BitAnd(BitXor(r, n % 2), 1)
           r1 == Shr1(r)
       IN  IF b = 1
           THEN lsb_bits(BitAnd(BitXor(r1, poly), mask), poly, mask, n \div 2, k - 1)
           ELSE lsb_bits(r1, poly, mask, n \div 2, k - 1)

RECURSIVE lsb_bytes(_, _, _, _)
lsb_bytes(r, poly, mask, data) ==
  IF data = <<>> THEN r
  ELSE lsb_bytes(lsb_bits(r, poly, mask, Head(data), 8), poly, mask, Tail(data))

\* the checksum of the LSB-first reference of width w: the register starts
\* at the w-bit mirror image of initial and is read out as
\* (register XOR final_xor) AND mask
lsb_reference(poly, w, initial, final_xor, data) ==
  BitAnd(BitXor(lsb_bytes(reflect_function(Pow2(w - 1), initial), poly, LowBits(w), data),
                final_xor),
         LowBits(w))

\* C12: for every width 1..=7 with reflect = true the bitwise reflected engine
\* of create_crc returns, after any digested bytes, the get_crc() of the
\* LSB-first reference (the convention of the width-8 reflected table path).
C12_ReflectedMatchesLsbFirst ==
  (pc = "ready" /\ args.bits \in 1 .. 7 /\ args.reflect /\ ~was_reset) =>
    get_crc(crc) =
      lsb_reference(args.poly, args.bits, args.initial, args.final_xor, fed)

RECURSIVE canonical_bits(_, _, _, _, _, _)
\* the canonical MSB-first shift register of width w over the bits of the
\* byte n from i down: sum is cut to its low w bits after every bit step
canonical_bits(sum, high_bit, poly, mask, n, i) ==
  IF i = 0 THEN sum
  ELSE LET carry == (BitAnd(sum, high_bit) # 0) # (BitAnd(n, i) # 0)
           sum1  == BitAnd(Shl1(sum), mask)
       IN  IF carry
           THEN canonical_bits(BitAnd(BitXor(sum1, poly), mask), high_bit, poly, mask,
                               n, Shr1(i))
           ELSE canonical_bits(sum1, high_bit, poly, mask, n, Shr1(i))

RECURSIVE canonical_bytes(_, _, _, _, _)
canonical_bytes(sum, high_bit, poly, mask, data) ==
  IF data = <<>> THEN sum
  ELSE canonical_bytes(canonical_bits(sum, high_bit, poly, mask, Head(data), 128),
                       high_bit, poly, mask, Tail(data))

\* the checksum of the canonical register of width w, which holds initial and
\* poly cut to w bits
canonical(poly, w, initial, final_xor, data) ==
  BitAnd(BitXor(canonical_bytes(BitAnd(initial, LowBits(w)), Pow2(w - 1),
                                BitAnd(poly, LowBits(w)), LowBits(w), data),
                final_xor),
         LowBits(w))

\* C13: on the bitwise non-reflected path of width 1..=7 the bits of sum, poly
\* and initial above bit w-1 never reach the result: get_crc() is that of the
\* canonical register that cuts sum to w bits after every bit step.
C13_HighBitsInert ==
  (pc = "ready" /\ args.bits \in 1 .. 7 /\ ~crc.by_table /\ ~crc.reflect) =>
    get_crc(crc) =
      canonical(args.poly, args.bits, args.initial, args.final_xor, fed)

\* C13 witness: a width-3 engine whose polynomial and sum have bits set above
\* bit 2, after a digest
C13_Witness ==
  /\ pc = "ready" /\ last = "digest" /\ Len(fed) = MaxFed
  /\ args.bits = 3 /\ ~crc.by_table /\ ~crc.reflect
  /\ crc.poly > LowBits(3) /\ crc.initial > LowBits(3)
  /\ crc.sum > LowBits(3)

\* C14: on the width-8 table path, reflected or not, digesting the single byte
\* get_crc() after any digests sets sum to lookup_table[final_xor]; the next
\* get_crc() is lookup_table[final_xor] XOR final_xor, whatever the message
\* and the initial value, and 0 when final_xor = 0.
C14_TableResidue ==
  (pc = "ready" /\ last = "digest_crc" /\ crc.by_table /\ crc.bits = 8) =>
    /\ crc.sum = crc.lookup_table[crc.final_xor]
    /\ get_crc(crc) = BitXor(crc.lookup_table[crc.final_xor], crc.final_xor)
    /\ crc.final_xor = 0 => get_crc(crc) = 0

\* C14 witness: a reflected table engine with a final xor and a non-zero
\* initial that digested its own checksum after other bytes
C14_Witness ==
  /\ pc = "ready" /\ last = "digest_crc" /\ Len(fed) > 1
  /\ crc.by_table /\ crc.bits = 8 /\ crc.reflect
  /\ crc.final_xor = 85 /\ crc.initial = 253
  /\ get_crc(crc) # 0

====
